---- MODULE Spec2Model ----
(***************************************************************************)
(* Capture-and-schedule core of the screenshot manager.                    *)
(*                                                                         *)
(*   ScreenshotService (src/lib/screenshot.ts): one shared service object  *)
(*   with a nullable browser handle; every captureAllScreenshots call is   *)
(*   an async activation that is suspended at each await of the browser    *)
(*   runtime or of the file system.  Activations of different requests     *)
(*   interleave at those awaits.  Every call into the browser runtime may  *)
(*   reject; it can fulfil only while the page/browser it acts on is open. *)
(*                                                                         *)
(*   CronScheduler (src/lib/cron-scheduler.ts): the registry of timers,    *)
(*   the catalog rows it writes, and the executions of a job started by a  *)
(*   timer fire or by the manual trigger route.                            *)
(*                                                                         *)
(*   UrlHealthChecker (src/lib/url-health-checker.ts): checkMultipleUrls   *)
(*   checks a list of urls in batches; the checks of one batch are         *)
(*   pending fetches that settle in any order.                             *)
(***************************************************************************)
EXTENDS Integers, Sequences, FiniteSets, TLC

\* ------------------------------------------------------------------ bounds
MaxTargets == 2      \* targets in one captureAllScreenshots call
MaxUrls == 2         \* urls of one target

\* Two requests may be in flight against the one exported screenshotService.
Calls == {"a", "b"}

NoBrowser == 0       \* this.browser === null

\* ------------------------------------------------------------ capture input
\* What performLogin can find in the target and in process.env:
\*   "ok"      descriptor complete, both env keys named, both values set
\*   "nodesc"  loginUrl or one of the three selectors missing
\*   "nokeys"  usernameEnvKey or passwordEnvKey missing
\*   "nocreds" keys named, a value missing from process.env
LoginCfgs == {"ok", "nodesc", "nokeys", "nocreds"}

ScreenshotTarget ==
    { t \in [requiresLogin : BOOLEAN, cfg : LoginCfgs, nUrls : 0..MaxUrls] :
        ~t.requiresLogin => t.cfg = "nodesc" }

\* Request "a" runs any targets; request "b" is a run of a single target
\* without login and with one url.
TargetsOf(c) ==
    IF c = "a" THEN ScreenshotTarget
    ELSE {[requiresLogin |-> FALSE, cfg |-> "nodesc", nUrls |-> 1]}

BatchSizes(c) == IF c = "a" THEN 1..MaxTargets ELSE {1}

NoTarget == [requiresLogin |-> FALSE, cfg |-> "nodesc", nUrls |-> 0]

\* ScreenshotResult: urlName 0 stands for an outcome without urlName.
ScreenshotResult(ok, u, e) == [success |-> ok, urlName |-> u, error |-> e]

\* ------------------------------------------------------- health-check input
MaxCheckUrls == 3    \* urls handed to one checkMultipleUrls call
MaxConcurrent == 2   \* largest options.maxConcurrent of a call

\* What validateUrl can find in a url:
\*   "absolute"   http(s)://host..., accepted as it is
\*   "bare"       host... without protocol, accepted with https:// prepended
\*   "malformed"  rejected (empty, unparsable, other protocol, private host)
UrlForms == {"absolute", "bare", "malformed"}

\* ---------------------------------------------------------- scheduler input
MaxJobs == 2         \* rows of cron_jobs
MaxTime == 2         \* the clock runs over the minutes 0..MaxTime
MaxTimers == 3       \* node-cron tasks alive at the same time
MaxInFlight == 1     \* suspended executions per job and kind (timer, manual)

Jobs == 1..MaxJobs
Procs == {"p", "q"}  \* callers of the CronScheduler methods

\* cron expressions, as their whitespace-separated fields
EveryMinute == <<"*", "*", "*", "*", "*">>
EvenMinutes == <<"*/2", "*", "*", "*", "*">>
BadField == <<"x", "9", "*", "*", "*">>

\* cron.validate of node-cron: five fields (a sixth, leading seconds field is
\* optional in node-cron and not used here), each a *, number, range or step
FieldOk(f) == f \in {"*", "*/2", "9", "0", "1-5"}

validate(e) == Len(e) = 5 /\ \A i \in 1..Len(e) : FieldOk(e[i])

\* the minutes a valid expression matches (clock within one hour and day)
Matches(e, t) == IF e[1] = "*/2" THEN t % 2 = 0 ELSE e[1] = "*"

\* cron_jobs rows as the routes store them (validation.ts checks the number
\* of fields of the expression only): enabled, cron expression, target ids
CronJobRows ==
    {[enabled |-> TRUE, expr |-> EveryMinute, targets |-> {1}],
     [enabled |-> TRUE, expr |-> EveryMinute, targets |-> {}],
     [enabled |-> FALSE, expr |-> EveryMinute, targets |-> {1}],
     [enabled |-> TRUE, expr |-> EvenMinutes, targets |-> {1}],
     [enabled |-> TRUE, expr |-> BadField, targets |-> {1}]}

\* optional fields of a request body: << >> when omitted, <<v>> when given
FourFields == <<"*", "*", "*", "*">>

\* bodies of POST /api/cron-jobs (`enabled ?? true` applied)
CreateBodies ==
    {[expr |-> <<EveryMinute>>, enabled |-> <<TRUE>>, targets |-> <<{1}>>],
     [expr |-> <<EveryMinute>>, enabled |-> <<TRUE>>, targets |-> << >>],
     [expr |-> <<EveryMinute>>, enabled |-> <<TRUE>>, targets |-> <<{}>>],
     [expr |-> <<EveryMinute>>, enabled |-> <<FALSE>>, targets |-> <<{1}>>],
     [expr |-> <<BadField>>, enabled |-> <<TRUE>>, targets |-> <<{1}>>],
     [expr |-> <<FourFields>>, enabled |-> <<TRUE>>, targets |-> <<{1}>>]}

\* bodies of PUT /api/cron-jobs/[id]
UpdateBodies ==
    {[expr |-> <<EvenMinutes>>, enabled |-> << >>, targets |-> << >>],
     [expr |-> <<FourFields>>, enabled |-> << >>, targets |-> << >>],
     [expr |-> << >>, enabled |-> <<TRUE>>, targets |-> << >>],
     [expr |-> << >>, enabled |-> <<FALSE>>, targets |-> << >>],
     [expr |-> << >>, enabled |-> << >>, targets |-> <<{2}>>],
     [expr |-> << >>, enabled |-> << >>, targets |-> <<{}>>]}

\* cronJobValidationSchema as validateRequest applies it: a given expression
\* has five whitespace-separated parts, a given target array is not empty
cronJobValidationSchema(body) ==
    /\ body.expr # << >> => Len(body.expr[1]) = 5
    /\ body.targets # << >> => body.targets[1] # {}

Null == -1                \* lastRun / nextRun not set

VARIABLES
    catalog,       \* cron_jobs rows: [Jobs -> [present, used, enabled, expr, targets,
                   \*                            lastRun, nextRun]]
    scheduledJobs, \* CronScheduler.scheduledJobs, in Map insertion order: Seq of [id, task]
    timers,        \* node-cron tasks that are running: [id, job, expr, targets, fired]
    now,           \* the clock, in minutes
    running,       \* executions suspended at `await executeScreenshotsForTargets`
    proc,          \* per caller: the activation of a CronScheduler method
    execLog,       \* per job: what the execution that ended last wrote to the catalog
    schedThrew,    \* a scheduleCronJob call rejected after it created its task
    nCreated,      \* per job: 1 once a task has been created for it
    done,          \* the reload or update request that ended last, and how
    browser,     \* ScreenshotService.browser: NoBrowser or a browser id
    launched,    \* number of browsers chromium.launch has produced so far
    alive,       \* ids of the browsers that are running
    closedBy,    \* pairs <<browser id, call>>: who called close() on it
    openPages,   \* pages of the browser runtime that are open:
                 \* [owner: call, b: browser id, t: index of the target]
    call,        \* per request: the activation of captureAllScreenshots
    health       \* the activation of UrlHealthChecker.checkMultipleUrls

capVars == <<browser, launched, alive, closedBy, openPages, call>>

schedVars == <<catalog, scheduledJobs, timers, now, running, proc, execLog, schedThrew, nCreated, done>>

healthVars == <<health>>

vars == <<capVars, schedVars, healthVars>>

\* ------------------------------------------------------------------- Init
\* the run route has not answered
NoResponse == [kind |-> "none", totalTargets |-> 0, successCount |-> 0,
               failureCount |-> 0, results |-> << >>]

InitCall(c, n) ==
    [ pc |-> "idle",        \* position of the activation
      nT |-> n,             \* targets.length
      ti |-> 0,             \* targets already processed by the for loop
      cur |-> NoTarget,     \* the target captureScreenshot is working on
      ui |-> 0,             \* url being captured (1-based), 0 outside the loop
      results |-> << >>,    \* captureScreenshot's local results
      ret |-> << >>,        \* value captureScreenshot is about to return
      exit |-> "none",      \* how the try block was left
      out |-> << >>,        \* captureAllScreenshots' local results
      page |-> FALSE,       \* captureScreenshot's local page is non-null
      lb |-> NoBrowser,     \* captureScreenshot's local browser
      thrown |-> "none",    \* what captureAllScreenshots rejected with
      acq |-> NoBrowser,    \* browser initBrowser handed to this call
      nav |-> 0,            \* capture-url navigations issued for cur
      phase |-> "none",     \* furthest phase of cur: setup, login, urls/nourls
      pagesOpened |-> 0,    \* pages opened for cur
      resp |-> NoResponse   \* what the run route answered
    ]

NoJob == [id |-> 0, enabled |-> FALSE, expr |-> << >>, targets |-> {}]

Idle == [pc |-> "idle", op |-> "none", job |-> NoJob, snap |-> << >>]

\* what an execution wrote: lastRun / nextRun say which fields it wrote, at
\* and next the values, stale that its targets were not those of the catalog
NoExec == [kind |-> "none", lastRun |-> FALSE, nextRun |-> FALSE,
           at |-> Null, next |-> Null, stale |-> FALSE]

NoDone == [op |-> "none", job |-> 0, ok |-> FALSE]

\* checkMultipleUrls has not been called
NoHealth == [pc |-> "idle", urls |-> << >>, maxConcurrent |-> 1, i |-> 0,
             checks |-> << >>, results |-> << >>, clock |-> 0]

\* an id of cron_jobs that no row has or had (AUTOINCREMENT)
NoRow == [present |-> FALSE, used |-> FALSE, enabled |-> FALSE, expr |-> << >>,
          targets |-> {}, lastRun |-> Null, nextRun |-> Null]

\* the cron_jobs row of <<enabled, expr, targets>>, never run
Stored(row) == [present |-> TRUE, used |-> TRUE, enabled |-> row.enabled,
                expr |-> row.expr, targets |-> row.targets,
                lastRun |-> Null, nextRun |-> Null]

\* the state after construction, with calls of the capture engine to come:
\* no browser, an empty registry and no enabled job
Init ==
    /\ browser = NoBrowser
    /\ launched = 0
    /\ alive = {}
    /\ closedBy = {}
    /\ openPages = {}
    /\ call \in { f \in [Calls -> UNION {{InitCall(c, n) : n \in 1..MaxTargets} : c \in Calls}] :
                    \A c \in Calls : f[c].nT \in BatchSizes(c) }
    /\ catalog = [j \in Jobs |-> Stored([enabled |-> FALSE, expr |-> EveryMinute, targets |-> {}])]
    /\ scheduledJobs = << >>
    /\ timers = {}
    /\ now = 0
    /\ running = [j \in Jobs |-> [timer |-> 0, manual |-> 0]]
    /\ proc = [p \in Procs |-> Idle]
    /\ execLog = [j \in Jobs |-> NoExec]
    /\ schedThrew = FALSE
    /\ nCreated = [j \in Jobs |-> 0]
    /\ done = NoDone
    /\ health = NoHealth

\* the state after construction, with a catalog as the routes can have left
\* it: an empty registry, no task, no capture under way
InitScheduler ==
    /\ browser = NoBrowser
    /\ launched = 0
    /\ alive = {}
    /\ closedBy = {}
    /\ openPages = {}
    /\ call = [c \in Calls |-> InitCall(c, 1)]
    /\ catalog \in {[j \in Jobs |-> Stored(rows[j])] : rows \in [Jobs -> CronJobRows]}
    /\ scheduledJobs = << >>
    /\ timers = {}
    /\ now = 0
    /\ running = [j \in Jobs |-> [timer |-> 0, manual |-> 0]]
    /\ proc = [p \in Procs |-> Idle]
    /\ execLog = [j \in Jobs |-> NoExec]
    /\ schedThrew = FALSE
    /\ nCreated = [j \in Jobs |-> 0]
    /\ done = NoDone
    /\ health = NoHealth

\* --------------------------------------------------- ScreenshotService steps
\* the page held by the activation r of call c, and whether it is open
PageOf(c, r) == [owner |-> c, b |-> r.lb, t |-> r.ti + 1]

PageOpen(c) == call[c].page /\ PageOf(c, call[c]) \in openPages

\* closeBrowser, as the finally block of captureAllScreenshots enters it with
\* the activation r: a non-null handle gets close() and the activation waits
\* for it; close() ends the browser process and every page it holds.
closeBrowser(c, r) ==
    IF browser # NoBrowser
    THEN /\ alive' = alive \ {browser}
         /\ closedBy' = IF browser \in alive THEN closedBy \cup {<<browser, c>>} ELSE closedBy
         /\ openPages' = {p \in openPages : p.b # browser}
         /\ call' = [call EXCEPT ![c] = [r EXCEPT !.pc = "closeWait"]]
         /\ UNCHANGED <<browser, launched>>
    ELSE /\ call' = [call EXCEPT ![c] = [r EXCEPT !.pc = "done"]]
         /\ UNCHANGED <<browser, launched, alive, closedBy, openPages>>

\* the assignment after `await this.browser.close()`, then the call ends
closeBrowser_done(c) ==
    /\ call[c].pc = "closeWait"
    /\ UNCHANGED <<schedVars, healthVars>>
    /\ browser' = NoBrowser
    /\ call' = [call EXCEPT ![c].pc = "done"]
    /\ UNCHANGED <<launched, alive, closedBy, openPages>>

\* captureAllScreenshots is called: initBrowser launches when the handle is
\* null and returns the handle otherwise.
captureAllScreenshots(c) ==
    /\ call[c].pc = "idle"
    /\ UNCHANGED <<schedVars, healthVars>>
    /\ call' = [call EXCEPT ![c] =
          IF browser = NoBrowser THEN [@ EXCEPT !.pc = "launchA"]
          ELSE [@ EXCEPT !.pc = "loop", !.acq = browser]]
    /\ UNCHANGED <<browser, launched, alive, closedBy, openPages>>

\* chromium.launch settles for the initBrowser of captureAllScreenshots
initBrowser_launch(c) ==
    /\ call[c].pc = "launchA"
    /\ UNCHANGED <<schedVars, healthVars>>
    /\ \/ /\ launched' = launched + 1
          /\ alive' = alive \cup {launched + 1}
          /\ browser' = launched + 1
          /\ call' = [call EXCEPT ![c] = [@ EXCEPT !.pc = "loop", !.acq = launched + 1]]
          /\ UNCHANGED <<closedBy, openPages>>
       \/ closeBrowser(c, [call[c] EXCEPT !.thrown = "launch"])

\* a value returned by captureScreenshot is pushed and the loop goes on
\* (captureScreenshot's locals go out of scope)
Return(r, res) ==
    [r EXCEPT !.out = @ \o res, !.ti = @ + 1, !.pc = "loop",
              !.cur = NoTarget, !.ui = 0, !.results = << >>, !.ret = << >>,
              !.exit = "none", !.page = FALSE, !.lb = NoBrowser,
              !.nav = 0, !.phase = "none", !.pagesOpened = 0]

\* mutant of Catch: the page is closed on the normal path only, the catch
\* block returns with the page left open
Catch_noFinally(r, e) == Return(r, <<ScreenshotResult(FALSE, 0, e)>>)

\* the catch block of captureScreenshot; the finally block closes the page
\* when one was opened
Catch(r, e) ==
    IF ~r.page
    THEN Return(r, <<ScreenshotResult(FALSE, 0, e)>>)
    ELSE [r EXCEPT !.ret = <<ScreenshotResult(FALSE, 0, e)>>, !.exit = "catch",
                   !.pc = "closePage"]

\* the for loop of captureAllScreenshots calls captureScreenshot(target)
captureScreenshot(c) ==
    /\ call[c].pc = "loop"
    /\ UNCHANGED <<schedVars, healthVars>>
    /\ call[c].ti < call[c].nT
    /\ \E t \in TargetsOf(c) :
         call' = [call EXCEPT ![c] =
            LET r == [@ EXCEPT !.cur = t, !.results = << >>, !.ret = << >>,
                               !.exit = "none", !.page = FALSE, !.ui = 0, !.nav = 0,
                               !.phase = "setup", !.pagesOpened = 0, !.lb = NoBrowser]
            IN IF browser = NoBrowser THEN [r EXCEPT !.pc = "launchT"]
               ELSE [r EXCEPT !.pc = "newPage", !.lb = browser]]
    /\ UNCHANGED <<browser, launched, alive, closedBy, openPages>>

\* the loop is over: finally { await this.closeBrowser() }
captureAllScreenshots_finally(c) ==
    /\ call[c].pc = "loop"
    /\ UNCHANGED <<schedVars, healthVars>>
    /\ call[c].ti = call[c].nT
    /\ closeBrowser(c, call[c])

\* chromium.launch settles for the initBrowser of captureScreenshot
captureScreenshot_launch(c) ==
    /\ call[c].pc = "launchT"
    /\ UNCHANGED <<schedVars, healthVars>>
    /\ \/ /\ launched' = launched + 1
          /\ alive' = alive \cup {launched + 1}
          /\ browser' = launched + 1
          /\ call' = [call EXCEPT ![c] = [@ EXCEPT !.pc = "newPage", !.lb = launched + 1]]
          /\ UNCHANGED <<closedBy, openPages>>
       \/ /\ call' = [call EXCEPT ![c] = Catch(@, "runtime")]
          /\ UNCHANGED <<browser, launched, alive, closedBy, openPages>>

newPage(c) ==
    /\ call[c].pc = "newPage"
    /\ UNCHANGED <<schedVars, healthVars>>
    /\ \/ /\ call[c].lb \in alive
          /\ openPages' = openPages \cup {PageOf(c, call[c])}
          /\ call' = [call EXCEPT ![c] =
                [@ EXCEPT !.page = TRUE, !.pagesOpened = @ + 1, !.pc = "viewport"]]
       \/ /\ call' = [call EXCEPT ![c] = Catch(@, "runtime")]
          /\ UNCHANGED openPages
    /\ UNCHANGED <<browser, launched, alive, closedBy>>

\* `if (!target.urls || target.urls.length === 0)` and the start of the loop
urlsCheck(r) ==
    IF r.cur.nUrls = 0
    THEN [r EXCEPT !.ret = <<ScreenshotResult(FALSE, 0, "No URLs defined for this target")>>,
                   !.exit = "nourls", !.phase = "nourls", !.pc = "closePage"]
    ELSE [r EXCEPT !.phase = "urls", !.ui = 1, !.pc = "goto"]

\* mutant of performLogin: the descriptor and credential checks are missing
performLogin_unchecked(r) == [r EXCEPT !.phase = "login", !.pc = "loginGoto"]

\* performLogin up to its first await: the descriptor and credential checks
performLogin(r) ==
    LET l == [r EXCEPT !.phase = "login"]
    IN CASE r.cur.cfg = "nodesc"  -> Catch(l, "Missing login configuration")
         [] r.cur.cfg = "nokeys"  -> Catch(l, "Missing environment variable keys for credentials")
         [] r.cur.cfg = "nocreds" -> Catch(l, "Missing credentials in environment variables")
         [] OTHER                 -> [l EXCEPT !.pc = "loginGoto"]

\* page.setViewportSize settles; `if (target.requiresLogin)`
setViewportSize(c) ==
    /\ call[c].pc = "viewport"
    /\ UNCHANGED <<schedVars, healthVars>>
    /\ \/ /\ PageOpen(c)
          /\ call' = [call EXCEPT ![c] =
                IF @.cur.requiresLogin THEN performLogin(@) ELSE urlsCheck(@)]
       \/ call' = [call EXCEPT ![c] = Catch(@, "runtime")]
    /\ UNCHANGED <<browser, launched, alive, closedBy, openPages>>

\* one awaited page operation of performLogin: it fulfils only on an open
\* page, and it may reject
LoginStep(c, at, next) ==
    /\ call[c].pc = at
    /\ UNCHANGED <<schedVars, healthVars>>
    /\ \/ /\ PageOpen(c)
          /\ call' = [call EXCEPT ![c] = next]
       \/ call' = [call EXCEPT ![c] = Catch(@, "runtime")]
    /\ UNCHANGED <<browser, launched, alive, closedBy, openPages>>

performLogin_goto(c) == LoginStep(c, "loginGoto", [call[c] EXCEPT !.pc = "loginFillU"])

\* the message of a rejected page.fill(selector, value) is the runtime's: it
\* is the same whatever the value was, or it quotes the call with its value
\* (the catch block copies error.message as it is)
FillRejected == [username |-> "runtime, quoting the username",
                 password |-> "runtime, quoting the password"]

\* messages that come from the browser runtime or the file system
RuntimeErrors == {"runtime", FillRejected.username, FillRejected.password}

\* `await page.fill(selector, value)` with the value read from process.env
FillStep(c, at, key, next) ==
    \/ LoginStep(c, at, next)
    \/ /\ call[c].pc = at
       /\ UNCHANGED <<schedVars, healthVars>>
       /\ call' = [call EXCEPT ![c] = Catch(@, FillRejected[key])]
       /\ UNCHANGED <<browser, launched, alive, closedBy, openPages>>

performLogin_fillUsername(c) ==
    FillStep(c, "loginFillU", "username", [call[c] EXCEPT !.pc = "loginFillP"])

performLogin_fillPassword(c) ==
    FillStep(c, "loginFillP", "password", [call[c] EXCEPT !.pc = "loginSubmit"])

performLogin_submit(c) == LoginStep(c, "loginSubmit", urlsCheck(call[c]))

\* after captureScreenshotForUrl returned: results.push, next url or return
nextUrl(r, o) ==
    LET p == [r EXCEPT !.results = Append(@, o)]
    IN IF p.ui < p.cur.nUrls
       THEN [p EXCEPT !.ui = @ + 1, !.pc = "goto"]
       ELSE [p EXCEPT !.ret = p.results, !.exit = "return", !.pc = "closePage"]

\* mutant of urlFailed: captureScreenshotForUrl has no try/catch, so the
\* rejection reaches the catch block of captureScreenshot
urlFailed_escapes(r) == Catch(r, "runtime")

\* the catch block of captureScreenshotForUrl
urlFailed(r) == nextUrl(r, ScreenshotResult(FALSE, r.ui, "runtime"))

captureScreenshotForUrl_goto(c) ==
    /\ call[c].pc = "goto"
    /\ UNCHANGED <<schedVars, healthVars>>
    /\ \/ /\ PageOpen(c)
          /\ call' = [call EXCEPT ![c] = [@ EXCEPT !.nav = @ + 1, !.pc = "settle"]]
       \/ call' = [call EXCEPT ![c] = urlFailed([@ EXCEPT !.nav = @ + 1])]
    /\ UNCHANGED <<browser, launched, alive, closedBy, openPages>>

captureScreenshotForUrl_waitForTimeout(c) ==
    /\ call[c].pc = "settle"
    /\ UNCHANGED <<schedVars, healthVars>>
    /\ \/ /\ PageOpen(c)
          /\ call' = [call EXCEPT ![c].pc = "mkdir"]
       \/ call' = [call EXCEPT ![c] = urlFailed(@)]
    /\ UNCHANGED <<browser, launched, alive, closedBy, openPages>>

\* fs.access / fs.mkdir of the day directory
ensureScreenshotDir(c) ==
    /\ call[c].pc = "mkdir"
    /\ UNCHANGED <<schedVars, healthVars>>
    /\ \/ call' = [call EXCEPT ![c].pc = "shot"]
       \/ call' = [call EXCEPT ![c] = urlFailed(@)]
    /\ UNCHANGED <<browser, launched, alive, closedBy, openPages>>

captureScreenshotForUrl_screenshot(c) ==
    /\ call[c].pc = "shot"
    /\ UNCHANGED <<schedVars, healthVars>>
    /\ \/ /\ PageOpen(c)
          /\ call' = [call EXCEPT ![c] = nextUrl(@, ScreenshotResult(TRUE, @.ui, "none"))]
       \/ call' = [call EXCEPT ![c] = urlFailed(@)]
    /\ UNCHANGED <<browser, launched, alive, closedBy, openPages>>

\* finally { if (page) await page.close() }: when close() rejects, the
\* rejection replaces the value about to be returned and leaves the for loop
\* of captureAllScreenshots, whose finally block runs closeBrowser
page_close(c) ==
    /\ call[c].pc = "closePage"
    /\ UNCHANGED <<schedVars, healthVars>>
    /\ \/ /\ openPages' = openPages \ {PageOf(c, call[c])}
          /\ call' = [call EXCEPT ![c] = Return(@, @.ret)]
          /\ UNCHANGED <<browser, launched, alive, closedBy>>
       \/ closeBrowser(c, [call[c] EXCEPT !.thrown = "pageclose"])

\* results.filter(r => r.success).length and its complement
CountSuccess(o) == Cardinality({i \in 1..Len(o) : o[i].success})

CountFailure(o) == Cardinality({i \in 1..Len(o) : ~o[i].success})

\* mutant of run_POST_response: the failures are what is left of the targets
run_POST_response_byTargets(r) ==
    [kind |-> "json", totalTargets |-> r.nT, successCount |-> CountSuccess(r.out),
     failureCount |-> IF r.nT >= CountSuccess(r.out) THEN r.nT - CountSuccess(r.out) ELSE 0,
     results |-> r.out]

\* the body of the run route's answer after captureAllScreenshots returned
run_POST_response(r) ==
    [kind |-> "json", totalTargets |-> r.nT, successCount |-> CountSuccess(r.out),
     failureCount |-> CountFailure(r.out), results |-> r.out]

\* POST /api/screenshot/run resumes after `await captureAllScreenshots`: it
\* answers with the counts, or with an error when the call rejected
run_POST(c) ==
    /\ call[c].pc = "done"
    /\ call[c].resp.kind = "none"
    /\ UNCHANGED <<schedVars, healthVars>>
    /\ call' = [call EXCEPT ![c].resp =
          IF call[c].thrown = "none" THEN run_POST_response(call[c])
          ELSE [NoResponse EXCEPT !.kind = "error"]]
    /\ UNCHANGED <<browser, launched, alive, closedBy, openPages>>

\* process.env at the two credential keys of a target whose credentials are
\* set: the values two runs may differ in
CredentialValues == {"value1", "value2"}

Environments == [username : CredentialValues, password : CredentialValues]

\* the outcome list as the caller reads it in a run under env: an error
\* message that quotes a page.fill call carries the value that was filled in
Rendered(o, env) ==
    [i \in 1..Len(o) |->
        [success |-> o[i].success, urlName |-> o[i].urlName, error |-> o[i].error,
         quoted |-> CASE o[i].error = FillRejected.username -> env.username
                      [] o[i].error = FillRejected.password -> env.password
                      [] OTHER -> ""]]

\* the steps of one captureAllScreenshots call while no other call is in
\* flight (the handle it set cannot be null when captureScreenshot reads it)
CallStep(c) ==
    \/ captureAllScreenshots(c)
    \/ initBrowser_launch(c)
    \/ captureScreenshot(c)
    \/ newPage(c)
    \/ setViewportSize(c)
    \/ performLogin_goto(c)
    \/ performLogin_fillUsername(c)
    \/ performLogin_fillPassword(c)
    \/ performLogin_submit(c)
    \/ captureScreenshotForUrl_goto(c)
    \/ captureScreenshotForUrl_waitForTimeout(c)
    \/ ensureScreenshotDir(c)
    \/ captureScreenshotForUrl_screenshot(c)
    \/ page_close(c)
    \/ captureAllScreenshots_finally(c)
    \/ closeBrowser_done(c)
    \/ run_POST(c)

\* one run request
Next == CallStep("a")

Spec == Init /\ [][Next]_vars

\* `await page.goto(...)` or `await page.screenshot(...)` whose promise never
\* settles: the activation stays suspended; no timer of the service races
\* the awaited call, so nothing resumes it
captureScreenshotForUrl_pending(c) ==
    /\ call[c].pc \in {"goto", "shot"}
    /\ PageOpen(c)
    /\ UNCHANGED <<schedVars, healthVars>>
    /\ call' = [call EXCEPT ![c].pc = "pending"]
    /\ UNCHANGED <<browser, launched, alive, closedBy, openPages>>

\* one run request whose awaited browser calls settle whenever they can,
\* except a navigation or capture that may stay pending
NextBounded == CallStep("a") \/ captureScreenshotForUrl_pending("a")

SpecBounded == Init /\ [][NextBounded]_vars /\ WF_vars(NextBounded)

\* two run requests in flight against the exported screenshotService
NextOverlap == \E c \in Calls : CallStep(c) \/ captureScreenshot_launch(c)

SpecOverlap == Init /\ [][NextOverlap]_vars

\* ------------------------------------------------------ CronScheduler steps
NextRunStep == 1     \* calculateNextRun: now + 60000 ms
FallbackStep == 60   \* calculateNextRun, catch block: now + 3600000 ms

\* calculateNextRun: cron.schedule throws on an expression it cannot parse
calculateNextRun(e, t) == IF validate(e) THEN t + NextRunStep ELSE t + FallbackStep

\* the cronJob object a caller read from the catalog
CronJob(j) == [id |-> j, enabled |-> catalog[j].enabled, expr |-> catalog[j].expr,
               targets |-> catalog[j].targets]

\* the state the synchronous code of one step works on
SchedState == [reg |-> scheduledJobs, tm |-> timers, cat |-> catalog, made |-> nCreated]

\* Map operations on scheduledJobs
has(reg, id) == \E i \in 1..Len(reg) : reg[i].id = id

get(reg, id) == reg[CHOOSE i \in 1..Len(reg) : reg[i].id = id]

delete(reg, id) == SelectSeq(reg, LAMBDA e : e.id # id)

set(reg, id, task) ==
    IF has(reg, id)
    THEN [i \in 1..Len(reg) |-> IF reg[i].id = id THEN [id |-> id, task |-> task] ELSE reg[i]]
    ELSE Append(reg, [id |-> id, task |-> task])

\* unscheduleCronJob: no await inside, it runs to its end in one step
unscheduleCronJob(st, id) ==
    IF has(st.reg, id)
    THEN [st EXCEPT !.tm = {t \in @ : t.id # get(st.reg, id).task},
                    !.reg = delete(@, id)]
    ELSE st

\* a task id that no running task and no registry entry carries
NewTask(st) ==
    LET used == {t.id : t \in st.tm} \cup {st.reg[i].task : i \in 1..Len(st.reg)}
        free == (1..(Cardinality(used) + 1)) \ used
    IN CHOOSE n \in free : \A m \in free : n <= m

\* scheduleCronJob from cron.schedule on: the task is created running (the
\* default of node-cron) with the cronJob object in its closure, nextRun is
\* written to the catalog, and the task is stored; a throwing catalog write
\* rejects the call after the task was created
schedule_store(st, job, dbOk) ==
    LET task == [id |-> NewTask(st), job |-> job.id, expr |-> job.expr,
                 targets |-> job.targets, fired |-> now,
                 gen |-> IF st.made[job.id] = 0 THEN 1 ELSE 2]
        made == [st EXCEPT !.tm = @ \cup {task}, !.made[job.id] = 1]
    IN IF dbOk
       THEN [st |-> [made EXCEPT !.cat[job.id].nextRun =
                                     IF st.cat[job.id].present
                                     THEN calculateNextRun(job.expr, now) ELSE @,
                                 !.reg = set(@, job.id, task.id)],
             status |-> "ok"]
       ELSE [st |-> made, status |-> "threw"]

\* mutant of scheduleCronJob: an already registered job is not unscheduled
scheduleCronJob_noUnschedule(st, job, dbOk) ==
    IF ~validate(job.expr) THEN [st |-> st, status |-> "invalid"]
    ELSE schedule_store(st, job, dbOk)

\* scheduleCronJob from its call to its first await or to its end
scheduleCronJob(st, job, dbOk) ==
    IF ~validate(job.expr) THEN [st |-> st, status |-> "invalid"]
    ELSE IF has(st.reg, job.id)
         THEN [st |-> unscheduleCronJob(st, job.id), status |-> "await"]
         ELSE schedule_store(st, job, dbOk)

\* the result of a step becomes the state
Apply(r) ==
    /\ scheduledJobs' = r.st.reg
    /\ timers' = r.st.tm
    /\ catalog' = r.st.cat
    /\ nCreated' = r.st.made
    /\ schedThrew' = (schedThrew \/ r.status = "threw")

\* cron.schedule can be reached by the step (bound on the tasks alive)
Room == Cardinality(timers) < MaxTimers

\* the stored row of job j and whether the registry holds the job, as a
\* request finds them
Before(j) == <<[row |-> catalog[j], registered |-> has(scheduledJobs, j)]>>

\* an activation ends and its caller is idle again; a reload or an update
\* request leaves how it ended
Finish(p, op, j, ok) ==
    /\ proc' = [proc EXCEPT ![p] = Idle]
    /\ done' = IF op \in {"reload", "PUT"} THEN [op |-> op, job |-> j, ok |-> ok] ELSE NoDone

\* an activation is suspended at an await
Suspend(p, at, op, job, snap) ==
    /\ proc' = [proc EXCEPT ![p] = [pc |-> at, op |-> op, job |-> job, snap |-> snap]]
    /\ done' = NoDone

\* a caller invokes scheduleCronJob with the row of an enabled job
call_scheduleCronJob(p, j) ==
    /\ proc[p].pc = "idle"
    /\ catalog[j].present /\ catalog[j].enabled
    /\ Room
    /\ \E dbOk \in BOOLEAN :
         LET r == scheduleCronJob(SchedState, CronJob(j), dbOk) IN
         /\ Apply(r)
         /\ IF r.status = "await"
            THEN Suspend(p, "sched_await", "schedule", CronJob(j), << >>)
            ELSE Finish(p, "schedule", j, r.status = "ok")
    /\ UNCHANGED <<now, running, execLog, capVars, healthVars>>

\* scheduleCronJob resumes after `await this.unscheduleCronJob(id)`
scheduleCronJob_resume(p) ==
    /\ proc[p].pc = "sched_await"
    /\ Room
    /\ \E dbOk \in BOOLEAN :
         LET r == schedule_store(SchedState, proc[p].job, dbOk) IN
         /\ Apply(r)
         /\ Finish(p, proc[p].op, proc[p].job.id, r.status = "ok")
    /\ UNCHANGED <<now, running, execLog, capVars, healthVars>>

call_unscheduleCronJob(p, j) ==
    /\ proc[p].pc = "idle"
    /\ Apply([st |-> unscheduleCronJob(SchedState, j), status |-> "ok"])
    /\ done' = NoDone
    /\ UNCHANGED <<proc, now, running, execLog, capVars, healthVars>>

\* mutant of EnabledJobs: initialize schedules every stored job
EnabledJobs_unfiltered ==
    LET all == [j \in Jobs |-> CronJob(j)]
    IN SelectSeq(all, LAMBDA c : catalog[c.id].present)

\* db.getAllCronJobs(), ORDER BY name, filtered by `if (cronJob.enabled)`
EnabledJobs ==
    LET all == [j \in Jobs |-> CronJob(j)]
    IN SelectSeq(all, LAMBDA c : catalog[c.id].present /\ catalog[c.id].enabled)

\* the for loop of initialize, from one await of scheduleCronJob to the next
initialize_loop(p, op, snap, dbOk) ==
    IF snap = << >>
    THEN /\ Finish(p, op, 0, TRUE)
         /\ UNCHANGED <<scheduledJobs, timers, catalog, nCreated, schedThrew>>
    ELSE LET r == scheduleCronJob(SchedState, Head(snap), dbOk) IN
         /\ Room
         /\ Apply(r)
         /\ CASE r.status = "ok" -> Suspend(p, "init_next", op, NoJob, Tail(snap))
              [] r.status = "await" -> Suspend(p, "init_sched", op, Head(snap), Tail(snap))
              [] OTHER -> Finish(p, op, 0, FALSE)

initialize(p) ==
    /\ proc[p].pc = "idle"
    /\ \E dbOk \in BOOLEAN : initialize_loop(p, "initialize", EnabledJobs, dbOk)
    /\ UNCHANGED <<now, running, execLog, capVars, healthVars>>

initialize_next(p) ==
    /\ proc[p].pc = "init_next"
    /\ \E dbOk \in BOOLEAN : initialize_loop(p, proc[p].op, proc[p].snap, dbOk)
    /\ UNCHANGED <<now, running, execLog, capVars, healthVars>>

\* the scheduleCronJob awaited by initialize resumes after its own await
initialize_sched(p) ==
    /\ proc[p].pc = "init_sched"
    /\ Room
    /\ \E dbOk \in BOOLEAN :
         LET r == schedule_store(SchedState, proc[p].job, dbOk) IN
         /\ Apply(r)
         /\ IF r.status = "ok"
            THEN Suspend(p, "init_next", proc[p].op, NoJob, proc[p].snap)
            ELSE Finish(p, proc[p].op, 0, FALSE)
    /\ UNCHANGED <<now, running, execLog, capVars, healthVars>>

\* `for (const [cronJobId] of this.scheduledJobs) await unscheduleCronJob`:
\* the Map iterator visits the entries in insertion order, entries added
\* while the loop is suspended included, so the loop ends on an empty Map
unschedule_loop(p, at, dbOk) ==
    IF scheduledJobs # << >>
    THEN /\ Apply([st |-> unscheduleCronJob(SchedState, Head(scheduledJobs).id), status |-> "ok"])
         /\ Suspend(p, at, IF at = "reload_loop" THEN "reload" ELSE "shutdown", NoJob, << >>)
    ELSE IF at = "reload_loop"
         THEN initialize_loop(p, "reload", EnabledJobs, dbOk)
         ELSE /\ Finish(p, "shutdown", 0, TRUE)
              /\ UNCHANGED <<scheduledJobs, timers, catalog, nCreated, schedThrew>>

reloadCronJobs(p) ==
    /\ proc[p].pc = "idle"
    /\ \E dbOk \in BOOLEAN : unschedule_loop(p, "reload_loop", dbOk)
    /\ UNCHANGED <<now, running, execLog, capVars, healthVars>>

reloadCronJobs_next(p) ==
    /\ proc[p].pc = "reload_loop"
    /\ \E dbOk \in BOOLEAN : unschedule_loop(p, "reload_loop", dbOk)
    /\ UNCHANGED <<now, running, execLog, capVars, healthVars>>

shutdown(p) ==
    /\ proc[p].pc = "idle"
    /\ scheduledJobs # << >>
    /\ unschedule_loop(p, "shutdown_loop", TRUE)
    /\ UNCHANGED <<now, running, execLog, capVars, healthVars>>

shutdown_next(p) ==
    /\ proc[p].pc = "shutdown_loop"
    /\ unschedule_loop(p, "shutdown_loop", TRUE)
    /\ UNCHANGED <<now, running, execLog, capVars, healthVars>>

\* the clock
Tick ==
    /\ now < MaxTime
    /\ now' = now + 1
    /\ UNCHANGED <<catalog, scheduledJobs, timers, nCreated, running, proc, execLog, schedThrew, done, capVars, healthVars>>

\* what an execution that wrote to the catalog leaves in the log
Wrote(kind, next, stale) ==
    [kind |-> kind, lastRun |-> TRUE, nextRun |-> next # Null,
     at |-> now, next |-> next, stale |-> stale]

Threw == [NoExec EXCEPT !.kind = "threw"]

\* a running task fires at a minute its expression matches and calls
\* executeCronJob with the cronJob of its closure: lastRun and nextRun are
\* written first (an UPDATE of a deleted row changes nothing), then the
\* screenshots of the closure's targets are awaited; a throwing catalog
\* write ends the execution in the catch block
executeCronJob(t) ==
    /\ t \in timers
    /\ Matches(t.expr, now) /\ t.fired < now
    /\ running[t.job].timer < MaxInFlight
    /\ timers' = (timers \ {t}) \cup {[t EXCEPT !.fired = now]}
    /\ \E dbOk \in BOOLEAN :
         IF dbOk
         THEN /\ catalog' = IF catalog[t.job].present
                            THEN [catalog EXCEPT ![t.job].lastRun = now,
                                                 ![t.job].nextRun = calculateNextRun(t.expr, now)]
                            ELSE catalog
              /\ execLog' = [execLog EXCEPT ![t.job] =
                    Wrote("timer", calculateNextRun(t.expr, now),
                          t.targets # catalog[t.job].targets)]
              /\ running' = IF t.targets # {}
                            THEN [running EXCEPT ![t.job].timer = @ + 1] ELSE running
         ELSE /\ execLog' = [execLog EXCEPT ![t.job] = Threw]
              /\ UNCHANGED <<catalog, running>>
    /\ UNCHANGED <<scheduledJobs, nCreated, now, proc, schedThrew, done, capVars, healthVars>>

\* executeScreenshotsForTargets settled: the execution logs and ends
executeCronJob_done(j) ==
    /\ running[j].timer > 0
    /\ running' = [running EXCEPT ![j].timer = @ - 1]
    /\ UNCHANGED <<catalog, scheduledJobs, timers, nCreated, now, proc, execLog, schedThrew, done, capVars, healthVars>>

\* POST /api/cron-jobs/[id]/trigger up to `await executeScreenshotsForTargets`:
\* the job is read from the catalog with its targets
trigger_POST(j) ==
    /\ catalog[j].present
    /\ catalog[j].targets # {}
    /\ running[j].manual < MaxInFlight
    /\ running' = [running EXCEPT ![j].manual = @ + 1]
    /\ UNCHANGED <<catalog, scheduledJobs, timers, nCreated, now, proc, execLog, schedThrew, done, capVars, healthVars>>

\* POST /api/cron-jobs/[id]/trigger of a job without targets:
\* `throw createValidationError('Cron job has no associated targets')`
trigger_refused(j) ==
    /\ catalog[j].present
    /\ catalog[j].targets = {}
    /\ execLog[j].kind # "refused"
    /\ execLog' = [execLog EXCEPT ![j] = [NoExec EXCEPT !.kind = "refused"]]
    /\ UNCHANGED <<catalog, scheduledJobs, timers, nCreated, now, running, proc, schedThrew, done, capVars, healthVars>>

\* the trigger route resumes: db.updateCronJob(id, { lastRun })
trigger_done(j) ==
    /\ running[j].manual > 0
    /\ running' = [running EXCEPT ![j].manual = @ - 1]
    /\ \E dbOk \in BOOLEAN :
         IF dbOk
         THEN /\ catalog' = IF catalog[j].present
                            THEN [catalog EXCEPT ![j].lastRun = now] ELSE catalog
              /\ execLog' = [execLog EXCEPT ![j] = Wrote("manual", Null, FALSE)]
         ELSE /\ execLog' = [execLog EXCEPT ![j] = Threw]
              /\ UNCHANGED catalog
    /\ UNCHANGED <<scheduledJobs, timers, nCreated, now, proc, schedThrew, done, capVars, healthVars>>

\* POST /api/cron-jobs: the body is validated and db.createCronJob inserts
\* the row under the next id; the job is not handed to the scheduler
createCronJob_POST(p, body) ==
    /\ proc[p].pc = "idle"
    /\ cronJobValidationSchema(body)
    /\ \E id \in Jobs :
         /\ ~catalog[id].used
         /\ \A k \in Jobs : k < id => catalog[k].used
         /\ catalog' = [catalog EXCEPT ![id] =
               Stored([enabled |-> body.enabled[1], expr |-> body.expr[1],
                       targets |-> IF body.targets = << >> THEN {} ELSE body.targets[1]])]
    /\ done' = NoDone
    /\ UNCHANGED <<scheduledJobs, timers, nCreated, now, running, proc, execLog, schedThrew, capVars, healthVars>>

\* db.updateCronJob(id, body): the fields the body gives are written
Updated(row, body) ==
    [row EXCEPT !.expr = IF body.expr = << >> THEN @ ELSE body.expr[1],
                !.enabled = IF body.enabled = << >> THEN @ ELSE body.enabled[1],
                !.targets = IF body.targets = << >> THEN @ ELSE body.targets[1]]

\* PUT /api/cron-jobs/[id] up to `await cronScheduler.unscheduleCronJob(id)`,
\* or to its end when the body gives neither enabled nor cronExpression;
\* found is what is remembered of the state the request came in on
updateCronJob_PUT_from(p, j, body, found) ==
    /\ proc[p].pc = "idle"
    /\ cronJobValidationSchema(body)
    /\ catalog[j].present
    /\ LET cat == [catalog EXCEPT ![j] = Updated(@, body)]
           job == [id |-> j, enabled |-> cat[j].enabled, expr |-> cat[j].expr,
                   targets |-> cat[j].targets]
       IN IF body.enabled # << >> \/ body.expr # << >>
          THEN /\ Apply([st |-> unscheduleCronJob([SchedState EXCEPT !.cat = cat], j),
                         status |-> "ok"])
               /\ Suspend(p, "put_await", "PUT", job, found)
          ELSE /\ catalog' = cat
               /\ Finish(p, "PUT_fields", j, TRUE)
               /\ UNCHANGED <<scheduledJobs, timers, nCreated, schedThrew>>
    /\ UNCHANGED <<now, running, execLog, capVars, healthVars>>

updateCronJob_PUT(p, j, body) == updateCronJob_PUT_from(p, j, body, << >>)

\* the same request, with the row and the registration it found on record
updateCronJob_PUT_recorded(p, j, body) == updateCronJob_PUT_from(p, j, body, Before(j))

\* mutant of updateCronJob_PUT_resume: the job is not scheduled again
updateCronJob_PUT_resume_noSchedule(p) ==
    /\ proc[p].pc = "put_await"
    /\ Finish(p, "PUT", proc[p].job.id, TRUE)
    /\ UNCHANGED <<scheduledJobs, timers, catalog, nCreated, schedThrew>>
    /\ UNCHANGED <<now, running, execLog, capVars, healthVars>>

\* PUT resumes: `if (cronJob.enabled) await cronScheduler.scheduleCronJob(cronJob)`
updateCronJob_PUT_resume(p) ==
    /\ proc[p].pc = "put_await"
    /\ IF proc[p].job.enabled
       THEN /\ Room
            /\ \E dbOk \in BOOLEAN :
                 LET r == scheduleCronJob(SchedState, proc[p].job, dbOk) IN
                 /\ Apply(r)
                 /\ IF r.status = "await"
                    THEN Suspend(p, "sched_await", "PUT", proc[p].job, proc[p].snap)
                    ELSE Finish(p, "PUT", proc[p].job.id, r.status = "ok")
       ELSE /\ Finish(p, "PUT", proc[p].job.id, TRUE)
            /\ UNCHANGED <<scheduledJobs, timers, catalog, nCreated, schedThrew>>
    /\ UNCHANGED <<now, running, execLog, capVars, healthVars>>

\* DELETE /api/cron-jobs/[id] up to `await cronScheduler.unscheduleCronJob(id)`;
\* found is what is remembered of the state the request came in on
deleteCronJob_DELETE_from(p, j, found) ==
    /\ proc[p].pc = "idle"
    /\ Apply([st |-> unscheduleCronJob(SchedState, j), status |-> "ok"])
    /\ Suspend(p, "delete_await", "DELETE", [NoJob EXCEPT !.id = j], found)
    /\ UNCHANGED <<now, running, execLog, capVars, healthVars>>

\* the same request, with the row and the registration it found on record
deleteCronJob_DELETE_recorded(p, j) == deleteCronJob_DELETE_from(p, j, Before(j))

\* mutant of deleteCronJob_DELETE: the job is not unscheduled
deleteCronJob_DELETE_keepsTimer(p, j) ==
    /\ proc[p].pc = "idle"
    /\ Suspend(p, "delete_await", "DELETE", [NoJob EXCEPT !.id = j], << >>)
    /\ UNCHANGED <<scheduledJobs, timers, catalog, nCreated, schedThrew>>
    /\ UNCHANGED <<now, running, execLog, capVars, healthVars>>

deleteCronJob_DELETE(p, j) == deleteCronJob_DELETE_from(p, j, << >>)

\* DELETE resumes: db.deleteCronJob(id), NotFound when no row was deleted
deleteCronJob_DELETE_resume(p) ==
    /\ proc[p].pc = "delete_await"
    /\ LET j == proc[p].job.id IN
       /\ catalog' = IF catalog[j].present
                     THEN [catalog EXCEPT ![j] = [NoRow EXCEPT !.used = TRUE]]
                     ELSE catalog
       /\ Finish(p, "DELETE", j, catalog[j].present)
    /\ UNCHANGED <<scheduledJobs, timers, nCreated, schedThrew>>
    /\ UNCHANGED <<now, running, execLog, capVars, healthVars>>

\* the cron-jobs routes, called by p
RouteCall(p) ==
    \/ \E body \in CreateBodies : createCronJob_POST(p, body)
    \/ \E j \in Jobs, body \in UpdateBodies : updateCronJob_PUT(p, j, body)
    \/ updateCronJob_PUT_resume(p)
    \/ \E j \in Jobs : deleteCronJob_DELETE(p, j)
    \/ deleteCronJob_DELETE_resume(p)

\* the methods of the scheduler, called by p
SchedCall(p) ==
    \/ \E j \in Jobs : call_scheduleCronJob(p, j)
    \/ scheduleCronJob_resume(p)
    \/ \E j \in Jobs : call_unscheduleCronJob(p, j)
    \/ initialize(p)
    \/ initialize_next(p)
    \/ initialize_sched(p)
    \/ reloadCronJobs(p)
    \/ reloadCronJobs_next(p)
    \/ shutdown(p)
    \/ shutdown_next(p)

Fire ==
    \/ Tick
    \/ \E t \in timers : executeCronJob(t)
    \/ \E j \in Jobs : executeCronJob_done(j)
    \/ \E j \in Jobs : trigger_POST(j)
    \/ \E j \in Jobs : trigger_refused(j)
    \/ \E j \in Jobs : trigger_done(j)

\* the methods of the scheduler, one call at a time
NextSched == SchedCall("p")

SpecSched == InitScheduler /\ [][NextSched]_vars

\* scheduleCronJob called again and again, one call after the other
NextReschedule ==
    \/ \E j \in Jobs : call_scheduleCronJob("p", j)
    \/ scheduleCronJob_resume("p")

SpecReschedule == InitScheduler /\ [][NextReschedule]_vars

\* the server start-up (initialize), the clock, the timers and the trigger route
NextExec == (scheduledJobs = << >> /\ initialize("p")) \/ initialize_next("p") \/ Fire

SpecExec == InitScheduler /\ [][NextExec]_vars

\* an empty database: no cron_jobs row yet
InitRoutes ==
    /\ browser = NoBrowser
    /\ launched = 0
    /\ alive = {}
    /\ closedBy = {}
    /\ openPages = {}
    /\ call = [c \in Calls |-> InitCall(c, 1)]
    /\ catalog = [j \in Jobs |-> NoRow]
    /\ scheduledJobs = << >>
    /\ timers = {}
    /\ now = 0
    /\ running = [j \in Jobs |-> [timer |-> 0, manual |-> 0]]
    /\ proc = [p \in Procs |-> Idle]
    /\ execLog = [j \in Jobs |-> NoExec]
    /\ schedThrew = FALSE
    /\ nCreated = [j \in Jobs |-> 0]
    /\ done = NoDone
    /\ health = NoHealth

\* a step in which the catalog write of scheduleCronJob does not throw
NoThrow(A) == A /\ ~schedThrew'

\* the routes and reloadCronJobs, one request at a time, while the catalog
\* write of scheduleCronJob does not throw
NextRoutes ==
    \/ \E body \in CreateBodies : createCronJob_POST("p", body)
    \/ \E j \in Jobs, body \in UpdateBodies : updateCronJob_PUT("p", j, body)
    \/ NoThrow(updateCronJob_PUT_resume("p"))
    \/ \E j \in Jobs : deleteCronJob_DELETE("p", j)
    \/ deleteCronJob_DELETE_resume("p")
    \/ NoThrow(reloadCronJobs("p"))
    \/ NoThrow(reloadCronJobs_next("p"))
    \/ NoThrow(initialize_next("p"))

SpecRoutes == InitRoutes /\ [][NextRoutes]_vars

\* jobs are created and triggered by hand
NextCreateTrigger ==
    \/ \E body \in CreateBodies : createCronJob_POST("p", body)
    \/ Tick
    \/ \E j \in Jobs : trigger_POST(j)
    \/ \E j \in Jobs : trigger_refused(j)
    \/ \E j \in Jobs : trigger_done(j)

SpecCreateTrigger == InitRoutes /\ [][NextCreateTrigger]_vars

\* updates and deletions of stored jobs, one request at a time, with the
\* server start-up, the clock and the timers, while the catalog write of
\* scheduleCronJob does not throw
NextRoutesExec ==
    \/ \E j \in Jobs, body \in UpdateBodies : updateCronJob_PUT("p", j, body)
    \/ NoThrow(updateCronJob_PUT_resume("p"))
    \/ \E j \in Jobs : deleteCronJob_DELETE("p", j)
    \/ deleteCronJob_DELETE_resume("p")
    \/ NoThrow(scheduledJobs = << >> /\ initialize("p"))
    \/ NoThrow(initialize_next("p"))
    \/ Tick
    \/ \E t \in timers : executeCronJob(t)
    \/ \E j \in Jobs : executeCronJob_done(j)

SpecRoutesExec == InitScheduler /\ [][NextRoutesExec]_vars

\* update and delete requests for stored jobs, one request at a time, up to
\* the first request in which the catalog write of scheduleCronJob throws
NextRoutesFail ==
    \/ \E j \in Jobs, body \in UpdateBodies :
          ~schedThrew /\ updateCronJob_PUT_recorded("p", j, body)
    \/ updateCronJob_PUT_resume("p")
    \/ \E j \in Jobs : ~schedThrew /\ deleteCronJob_DELETE_recorded("p", j)
    \/ deleteCronJob_DELETE_resume("p")

SpecRoutesFail == InitScheduler /\ [][NextRoutesFail]_vars

\* the body of a PUT that disables a job
DisableBody == [expr |-> << >>, enabled |-> <<FALSE>>, targets |-> << >>]

\* initialize or reloadCronJobs called by p while q serves update requests
\* that disable a job and delete requests; the two activations interleave at
\* their awaits, and the catalog write of scheduleCronJob does not throw
NextReloadRoutes ==
    \/ NoThrow(initialize("p"))
    \/ NoThrow(initialize_next("p"))
    \/ NoThrow(initialize_sched("p"))
    \/ NoThrow(reloadCronJobs("p"))
    \/ NoThrow(reloadCronJobs_next("p"))
    \/ \E j \in Jobs : updateCronJob_PUT("q", j, DisableBody)
    \/ updateCronJob_PUT_resume("q")
    \/ \E j \in Jobs : deleteCronJob_DELETE("q", j)
    \/ deleteCronJob_DELETE_resume("q")

SpecReloadRoutes == InitScheduler /\ [][NextReloadRoutes]_vars

\* two callers of the scheduler's methods, interleaved at their awaits
NextSchedOverlap == \E p \in Procs : SchedCall(p)

SpecSchedOverlap == InitScheduler /\ [][NextSchedOverlap]_vars

\* ------------------------------------------------------- UrlHealthChecker
\* the url lists a caller can hand over: url k is known by its position
UrlLists ==
    UNION { {[k \in 1..n |-> [id |-> k, form |-> forms[k]]] :
                forms \in [1..n -> UrlForms]} : n \in 0..MaxCheckUrls }

\* validateUrl: a malformed url is not valid, any other url is valid and
\* its normalizedUrl carries a protocol
validateUrl(u) ==
    IF u.form = "malformed"
    THEN [isValid |-> FALSE, normalizedUrl |-> u]
    ELSE [isValid |-> TRUE, normalizedUrl |-> [u EXCEPT !.form = "absolute"]]

UrlHealthResult(u, ok, e, at) ==
    [url |-> u, isHealthy |-> ok, error |-> e, lastChecked |-> at]

\* the promise of a checkUrlHealth call
NoCheck == [state |-> "none", value |-> UrlHealthResult([id |-> 0, form |-> "absolute"], FALSE, "none", 0)]

\* checkUrlHealth up to its first await: a url that fails validation
\* fulfils the promise at once, any other url leaves a fetch pending
checkUrlHealth(u, at) ==
    IF ~validateUrl(u).isValid
    THEN [state |-> "fulfilled", value |-> UrlHealthResult(u, FALSE, "validation", at)]
    ELSE [state |-> "pending", value |-> NoCheck.value]

\* how a fetch can end: a 2xx response, another response, a rejection
\* (network error or the AbortSignal timeout)
FetchOutcomes == {"ok", "http", "rejected"}

\* checkUrlHealth after its await: a response yields a result for the
\* normalized url, a rejection is caught and yields a result for the url
checkUrlHealth_result(u, outcome, at) ==
    IF outcome = "ok" THEN UrlHealthResult(validateUrl(u).normalizedUrl, TRUE, "none", at)
    ELSE IF outcome = "http" THEN UrlHealthResult(validateUrl(u).normalizedUrl, FALSE, "HTTP status", at)
    ELSE UrlHealthResult(u, FALSE, "Network error", at)

\* urls.slice(i, i + maxConcurrent), as positions of urls
Batch(h) == {k \in 1..Len(h.urls) : h.i < k /\ k <= h.i + h.maxConcurrent}

\* the checks whose promise is pending
InFlight(h) == {k \in 1..Len(h.checks) : h.checks[k].state = "pending"}

\* the positions of a batch in ascending order
RECURSIVE InOrder(_)
InOrder(S) ==
    IF S = {} THEN << >>
    ELSE LET k == CHOOSE x \in S : \A y \in S : x <= y
         IN <<k>> \o InOrder(S \ {k})

\* mutant of PromiseAll_settled: settled as soon as one promise is
PromiseAll_settled_any(h) ==
    \E k \in Batch(h) : h.checks[k].state \in {"fulfilled", "rejected"}

\* Promise.all(batchPromises) is settled: one promise rejected, or every
\* promise fulfilled
PromiseAll_settled(h) ==
    \/ \E k \in Batch(h) : h.checks[k].state = "rejected"
    \/ \A k \in Batch(h) : h.checks[k].state = "fulfilled"

\* what the try / catch around Promise.all pushes: the fulfilled values in
\* the order of the batch, or one error result per url of the batch
batchResults(h) ==
    LET order == InOrder(Batch(h))
    IN IF \E k \in Batch(h) : h.checks[k].state = "rejected"
       THEN [x \in 1..Len(order) |->
               UrlHealthResult(h.urls[order[x]], FALSE, "Batch processing error", h.clock)]
       ELSE LET got == InOrder({k \in Batch(h) : h.checks[k].state = "fulfilled"})
            IN [x \in 1..Len(got) |-> h.checks[got[x]].value]

\* checkMultipleUrls(urls, {maxConcurrent}) is called
checkMultipleUrls(urls, mc) ==
    /\ health.pc = "idle"
    /\ health' = [health EXCEPT !.pc = "loop", !.urls = urls, !.maxConcurrent = mc,
                                !.i = 0, !.results = << >>,
                                !.checks = [k \in 1..Len(urls) |-> NoCheck]]
    /\ UNCHANGED <<capVars, schedVars>>

\* the loop body up to its await: batch.map starts every check of the batch
checkMultipleUrls_batch ==
    /\ health.pc = "loop"
    /\ health.i < Len(health.urls)
    /\ health' = [health EXCEPT
          !.pc = "await",
          !.checks = [k \in 1..Len(health.urls) |->
                        IF k \in Batch(health)
                        THEN checkUrlHealth(health.urls[k], health.clock)
                        ELSE health.checks[k]]]
    /\ UNCHANGED <<capVars, schedVars>>

\* the fetch of check k ends and checkUrlHealth returns
checkUrlHealth_settle(k, outcome) ==
    /\ k \in InFlight(health)
    /\ health' = [health EXCEPT
          !.clock = @ + 1,
          !.checks[k] = [state |-> "fulfilled",
                         value |-> checkUrlHealth_result(health.urls[k], outcome,
                                                         health.clock + 1)]]
    /\ UNCHANGED <<capVars, schedVars>>

\* the await of Promise.all ends: the results are pushed and the loop steps
checkMultipleUrls_resume ==
    /\ health.pc = "await"
    /\ PromiseAll_settled(health)
    /\ health' = [health EXCEPT
          !.pc = "loop",
          !.results = @ \o batchResults(health),
          !.i = @ + health.maxConcurrent]
    /\ UNCHANGED <<capVars, schedVars>>

\* the loop ends and checkMultipleUrls returns results
checkMultipleUrls_return ==
    /\ health.pc = "loop"
    /\ health.i >= Len(health.urls)
    /\ health' = [health EXCEPT !.pc = "done"]
    /\ UNCHANGED <<capVars, schedVars>>

\* nothing under way but the health checker
InitHealth ==
    /\ browser = NoBrowser
    /\ launched = 0
    /\ alive = {}
    /\ closedBy = {}
    /\ openPages = {}
    /\ call = [c \in Calls |-> InitCall(c, 1)]
    /\ catalog = [j \in Jobs |-> NoRow]
    /\ scheduledJobs = << >>
    /\ timers = {}
    /\ now = 0
    /\ running = [j \in Jobs |-> [timer |-> 0, manual |-> 0]]
    /\ proc = [p \in Procs |-> Idle]
    /\ execLog = [j \in Jobs |-> NoExec]
    /\ schedThrew = FALSE
    /\ nCreated = [j \in Jobs |-> 0]
    /\ done = NoDone
    /\ health = NoHealth

\* one checkMultipleUrls call with a positive maxConcurrent, as the routes
\* pass it
NextHealth ==
    \/ \E urls \in UrlLists, mc \in 1..MaxConcurrent : checkMultipleUrls(urls, mc)
    \/ checkMultipleUrls_batch
    \/ \E k \in 1..MaxCheckUrls, outcome \in FetchOutcomes : checkUrlHealth_settle(k, outcome)
    \/ checkMultipleUrls_resume
    \/ checkMultipleUrls_return

SpecHealth == InitHealth /\ [][NextHealth]_vars

\* ================================================================ claims
UrlPcs == {"goto", "settle", "mkdir", "shot"}
LoginPcs == {"loginGoto", "loginFillU", "loginFillP", "loginSubmit"}
Ended(c) == call[c].pc \in {"closeWait", "done"}

\* number of targets that have an outcome in a result list: a target
\* contributes one outcome without urlName or a run of outcomes 1..n
Represented(o) == Cardinality({i \in 1..Len(o) : o[i].urlName <= 1})

\* C1 - Per-URL isolation: once the login (if any) has passed and the target
\* has n >= 1 urls, every url 1..n is navigated to in order and gets exactly
\* one outcome carrying its own label, whichever urls fail; a failing url
\* never takes captureScreenshot to its catch block, so the value returned
\* holds exactly n outcomes.  Only a rejection of page.close() in the finally
\* block can keep that value from being returned.
C1_PerUrlIsolation ==
    \A c \in Calls :
        LET r == call[c] IN
        r.phase = "urls" =>
            /\ r.cur.nUrls >= 1
            /\ r.pc \in UrlPcs \cup {"closePage"} \/ (Ended(c) /\ r.thrown = "pageclose")
            /\ r.pc \in UrlPcs =>
                 /\ r.ui \in 1..r.cur.nUrls
                 /\ Len(r.results) = r.ui - 1
                 /\ r.nav = IF r.pc = "goto" THEN r.ui - 1 ELSE r.ui
            /\ \A i \in 1..Len(r.results) : r.results[i].urlName = i
            /\ r.pc \notin UrlPcs =>
                 /\ r.exit = "return"
                 /\ r.ret = r.results
                 /\ Len(r.ret) = r.cur.nUrls
                 /\ r.nav = r.cur.nUrls

\* C1 witness: the first url failed, the second was captured, both reported
C1_Witness ==
    \E c \in Calls :
        /\ call[c].pc = "closePage" /\ call[c].exit = "return"
        /\ Len(call[c].ret) = 2
        /\ ~call[c].ret[1].success /\ call[c].ret[2].success

\* C2 - Login gating: while the login of a requiresLogin target has not
\* passed, no capture url is navigated to; a failed login (incomplete
\* descriptor, missing credential, or a rejected login step) makes the target
\* return exactly one failure outcome; and the batch is only left early by a
\* rejected browser launch or page.close(), never by the failed login, so
\* the later targets are processed.
C2_LoginGating ==
    \A c \in Calls :
        LET r == call[c] IN
        /\ (r.cur.requiresLogin /\ r.phase \in {"setup", "login"}) => r.nav = 0
        /\ (r.cur.requiresLogin /\ r.cur.cfg # "ok") => r.phase # "urls" /\ r.pc \notin LoginPcs
        /\ (r.phase = "login" /\ r.pc = "closePage") =>
              /\ r.exit = "catch"
              /\ Len(r.ret) = 1 /\ ~r.ret[1].success /\ r.ret[1].urlName = 0
        /\ r.phase = "login" =>
              r.pc \in LoginPcs \cup {"closePage"} \/ (Ended(c) /\ r.thrown = "pageclose")
        /\ (Ended(c) /\ r.ti < r.nT) => r.thrown \in {"launch", "pageclose"}
        /\ (r.pc = "loop" \/ (Ended(c) /\ r.thrown = "none")) => Represented(r.out) = r.ti

\* C2 witness: the first target failed its login and contributed one failure,
\* and the second target of the batch is being captured
C2_Witness ==
    \E c \in Calls :
        /\ call[c].ti = 1 /\ call[c].pc = "goto"
        /\ call[c].out = <<ScreenshotResult(FALSE, 0, "Missing credentials in environment variables")>>

\* pages of call c that are open
PagesOf(c) == {p \in openPages : p.owner = c}

\* C8 - Page release: a call opens one page per target, has at most one page
\* open at any moment, holds no open page between two targets (so the page
\* of a target is closed before the next one is opened) and none once it has
\* ended, whatever the outcome of the login and of each url (a page whose
\* close() rejected is not known to be closed: it goes with its browser).
C8_PageRelease ==
    \A c \in Calls :
        LET r == call[c] IN
        /\ Cardinality(PagesOf(c)) <= 1
        /\ r.pagesOpened <= 1
        /\ r.pc \in {"viewport", "closePage"} \cup LoginPcs \cup UrlPcs =>
              r.page /\ r.pagesOpened = 1
        /\ r.pc \in {"idle", "launchA", "loop", "launchT", "newPage"} => PagesOf(c) = {}
        /\ (Ended(c) /\ r.thrown # "pageclose") => PagesOf(c) = {}

\* C8 witness: the second target's page is open after the first target's
\* login failed
C8_Witness ==
    \E c \in Calls :
        /\ call[c].ti = 1 /\ call[c].pc = "viewport" /\ PageOpen(c)
        /\ ~call[c].out[1].success

\* the running tasks created for job j, and the tasks the registry holds for it
TimersOf(j) == {t \in timers : t.job = j}

EntriesOf(j) == {i \in 1..Len(scheduledJobs) : scheduledJobs[i].id = j}

AllIdle == \A p \in Procs : proc[p].pc = "idle"

C4_IdempotentRescheduling ==
    ~schedThrew =>
      \A j \in Jobs :
        /\ Cardinality(TimersOf(j)) <= 1
        /\ Cardinality(EntriesOf(j)) <= 1
        /\ {t.id : t \in TimersOf(j)} = {scheduledJobs[i].task : i \in EntriesOf(j)}
        /\ (proc["p"].pc = "idle" /\ nCreated[j] = 1) =>
              (Cardinality(TimersOf(j)) = 1 /\ Cardinality(EntriesOf(j)) = 1)

\* a second scheduleCronJob call for a job has completed: the registered task
\* of the job is not the first that was created for it
C4_Witness ==
    \E j \in Jobs :
      /\ proc["p"].pc = "idle" /\ ~schedThrew
      /\ EntriesOf(j) # {}
      /\ \E t \in TimersOf(j) : t.gen = 2

\* C5: under every interleaving of the scheduler's methods at their awaits,
\* with no call rejected by the catalog write, a job never has more than one
\* running task, and once every call has finished the registry holds exactly
\* the running tasks.
C5_RegistryGuarded ==
    ~schedThrew =>
      /\ \A j \in Jobs : Cardinality(TimersOf(j)) <= 1
      /\ AllIdle =>
            {t.id : t \in timers} = {scheduledJobs[i].task : i \in 1..Len(scheduledJobs)}

\* C6: every execution of a job that ended, timer fire or manual trigger,
\* wrote both lastRun and nextRun to the catalog.
C6_ExecutionWritesBoth ==
    \A j \in Jobs :
      execLog[j].kind \in {"timer", "manual"} => (execLog[j].lastRun /\ execLog[j].nextRun)


\* C7 - Browser release: when captureAllScreenshots has ended, the browser
\* it acquired is closed, and the handle is null (until another call that is
\* in flight sets it again).
C7_BrowserReleased ==
    \A c \in Calls :
        call[c].pc = "done" =>
            /\ call[c].acq # NoBrowser => call[c].acq \notin alive
            /\ (\A d \in Calls \ {c} : call[d].pc \in {"idle", "done"}) => browser = NoBrowser

\* C9 - captureAllScreenshots never rejects because of a failure confined to
\* one target (page creation, viewport, login, url capture, page close).
C9_NoThrowForTarget ==
    \A c \in Calls : call[c].thrown # "pageclose"

\* the states of captureScreenshot in which the call works on its browser
UsesBrowser(c) == call[c].pc \in {"newPage", "viewport"} \cup LoginPcs \cup UrlPcs

\* C10 - Concurrent batches do not share a browser: two calls in flight use
\* different browser instances, and the browser a call is working on has not
\* been closed by another call.
C10_OwnBrowser ==
    \A c \in Calls :
        UsesBrowser(c) =>
            /\ \A d \in Calls \ {c} : UsesBrowser(d) => call[d].lb # call[c].lb
            /\ \A d \in Calls \ {c} : <<call[c].lb, d>> \notin closedBy

\* C11: a target without urls, with or without login and whatever the login
\* does, ends with exactly one outcome, a failure that carries the message
\* about the missing urls (rejections of the browser runtime set aside).
C11_ZeroUrlOutcome ==
    \A c \in Calls :
      (/\ call[c].pc = "closePage"
       /\ call[c].cur.nUrls = 0
       /\ \A i \in 1..Len(call[c].ret) : call[c].ret[i].error \notin RuntimeErrors)
      => call[c].ret = <<ScreenshotResult(FALSE, 0, "No URLs defined for this target")>>

\* C12: the nextRun an execution fired by a timer at time T persists is later
\* than T and is the next time after T that the job's expression matches.
C12_NextRunMonotone ==
    \A j \in Jobs :
      execLog[j].kind = "timer" =>
        /\ catalog[j].nextRun > catalog[j].lastRun
        /\ Matches(catalog[j].expr, catalog[j].nextRun)
        /\ \A u \in (catalog[j].lastRun + 1)..(catalog[j].nextRun - 1) :
             ~Matches(catalog[j].expr, u)

\* C13: once a request has ended, an enabled job with a valid expression has
\* a nextRun in the catalog (it is written as soon as the job is created,
\* its expression changed or the job enabled), and a disabled job has none
\* left from its former schedule.
C13_NextRunRecomputed ==
    proc["p"].pc = "idle" =>
      \A j \in Jobs :
        catalog[j].present =>
          /\ (catalog[j].enabled /\ validate(catalog[j].expr)) => catalog[j].nextRun # Null
          /\ ~catalog[j].enabled => catalog[j].nextRun = Null

\* C14: a manual trigger that ended at time T leaves in the catalog what a
\* timer fire of the same job at T leaves: lastRun = T and the nextRun
\* executeCronJob computes at T.
C14_ManualTriggerParity ==
    \A j \in Jobs :
      execLog[j].kind = "manual" =>
        /\ execLog[j].lastRun
        /\ execLog[j].next = calculateNextRun(catalog[j].expr, execLog[j].at)

\* C15: whatever create and update requests were made, no stored job is
\* enabled with an expression that cron.validate rejects.
C15_ValidationGatesPersistence ==
    \A j \in Jobs :
      (catalog[j].present /\ catalog[j].enabled) => validate(catalog[j].expr)

\* C16: an execution fired by a timer captures the targets the catalog
\* holds for the job at the moment of the fire.
C16_TargetsAtFireTime ==
    \A j \in Jobs : execLog[j].kind = "timer" => ~execLog[j].stale

\* C17: a job without targets is not stored enabled, or else its manual
\* trigger is not answered with an error.
C17_ZeroTargetJob ==
    \A j \in Jobs :
      (catalog[j].present /\ catalog[j].enabled /\ catalog[j].targets = {})
        => execLog[j].kind # "refused"

C21_TotalIsOutcomes ==
    \A c \in Calls :
      call[c].resp.kind = "json" =>
        /\ call[c].resp.totalTargets = Len(call[c].resp.results)
        /\ call[c].resp.successCount + call[c].resp.failureCount = call[c].resp.totalTargets

\* C21, amended: the success count is the number of outcomes with
\* success = true, the failure count the number with success = false, they
\* add up to the length of the outcome list, which is the list the capture
\* returned; the total reported is the number of targets of the run, never
\* more than the number of outcomes.
C21_Aggregation ==
    \A c \in Calls :
      call[c].resp.kind = "json" =>
        LET s == call[c].resp IN
        /\ s.results = call[c].out
        /\ s.successCount = Cardinality({i \in 1..Len(s.results) : s.results[i].success})
        /\ s.failureCount = Cardinality({i \in 1..Len(s.results) : ~s.results[i].success})
        /\ s.successCount + s.failureCount = Len(s.results)
        /\ s.totalTargets = call[c].nT
        /\ s.totalTargets <= Len(s.results)

\* a run of one target with two urls, both captured: 1 target, 2 successes
C21_Witness ==
    \E c \in Calls :
      /\ call[c].resp.kind = "json"
      /\ call[c].resp.totalTargets = 1
      /\ call[c].resp.successCount = 2 /\ call[c].resp.failureCount = 0
      /\ Len(call[c].resp.results) = 2

\* C22: when the login descriptor of a requiresLogin target lacks a field
\* (login url, a selector, or a credential key name), the configuration
\* error is reported with no page opened and no navigation issued for the
\* target.
C22_ConfigErrorBeforeBrowser ==
    \A c \in Calls :
      (/\ call[c].cur.requiresLogin
       /\ call[c].cur.cfg \in {"nodesc", "nokeys"}
       /\ Len(call[c].ret) = 1
       /\ call[c].ret[1].error \in {"Missing login configuration",
                                    "Missing environment variable keys for credentials"})
      => /\ call[c].pagesOpened = 0
         /\ ~call[c].page
         /\ call[c].nav = 0

\* C23: two runs of the same targets with the same browser behaviour that
\* differ only in the values of the credentials return the same outcome
\* lists, error messages included; and when a credential is missing the
\* outcome is the message that names the keys, with no login step issued.
C23_NoCredentialInErrors ==
    \A c \in Calls :
      /\ \A e1 \in Environments, e2 \in Environments :
            /\ Rendered(call[c].out, e1) = Rendered(call[c].out, e2)
            /\ Rendered(call[c].ret, e1) = Rendered(call[c].ret, e2)
      /\ (call[c].cur.requiresLogin /\ call[c].cur.cfg = "nocreds") =>
            /\ call[c].pc \notin LoginPcs
            /\ (call[c].phase = "login" /\ call[c].pc = "closePage") =>
                  call[c].ret = <<ScreenshotResult(FALSE, 0,
                                    "Missing credentials in environment variables")>>

\* C24: captureAllScreenshots eventually returns, also when a navigation or
\* capture step of one url never completes.
C24_BoundedBatch == <>(call["a"].pc = "done")

\* C25: every task that was created and not destroyed is the one the
\* registry holds under its job id, also after calls that failed; a
\* scheduleCronJob that threw leaves no task of its job running.
C25_NoOrphanTimers ==
    \A t \in timers :
      \E i \in 1..Len(scheduledJobs) :
        scheduledJobs[i].id = t.job /\ scheduledJobs[i].task = t.id

\* C26: once every pending operation has finished, every registered job id
\* is a job stored in the catalog with enabled = true, however initialize
\* and reloadCronJobs interleave with disabling updates and with deletions.
C26_OnlyEnabledRegistered ==
    AllIdle =>
      \A i \in 1..Len(scheduledJobs) :
        /\ catalog[scheduledJobs[i].id].present
        /\ catalog[scheduledJobs[i].id].enabled

\* a request of p for job j is answered with an error in this step
FailsNow(p, j) ==
    /\ proc[p].op \in {"PUT", "DELETE"}
    /\ proc[p].job.id = j
    /\ proc'[p].pc = "idle"
    /\ IF proc[p].op = "PUT" THEN done'.op = "PUT" /\ ~done'.ok
       ELSE ~catalog[j].present

\* C27: when an update or delete request ends with an error, the stored
\* record of the job and whether the job is registered are what they were
\* when the request came in.
C27_FailedRequestChangesNothing ==
    [][\A j \in Jobs :
         FailsNow("p", j) =>
           /\ catalog'[j] = proc["p"].snap[1].row
           /\ has(scheduledJobs', j) = proc["p"].snap[1].registered]_vars

\* C28: however initBrowser and captureAllScreenshots calls on the shared
\* service overlap, at most one browser it launched is alive at a time,
\* and once every captureAllScreenshots call has returned every browser
\* that was launched has been closed.
C28_NoBrowserLeak ==
    /\ Cardinality(alive) <= 1
    /\ (\A c \in Calls : call[c].pc \in {"idle", "done"}) => alive = {}

\* C29: for a target without urls no navigation is issued at all: neither
\* a login step (the login page, the credentials, the submit) nor a capture
\* url, also when the target requires a login.
C29_ZeroUrlNoNavigation ==
    \A c \in Calls :
      (call[c].phase # "none" /\ call[c].cur.nUrls = 0) =>
        /\ call[c].pc \notin LoginPcs
        /\ call[c].nav = 0

\* C30 - checkMultipleUrls returns exactly one result per input url in input
\* order: result k is what the check of url k settled with, whichever checks
\* fail and in whichever order they settle.  Never more than maxConcurrent
\* checks are in flight, and the checks in flight all belong to the batch
\* being awaited: no check is pending when the next batch starts.
C30_OrderedBoundedBatches ==
    /\ Cardinality(InFlight(health)) <= health.maxConcurrent
    /\ InFlight(health) \subseteq Batch(health)
    /\ health.pc # "await" => InFlight(health) = {}
    /\ health.pc = "done" =>
          /\ Len(health.results) = Len(health.urls)
          /\ \A k \in 1..Len(health.urls) :
                /\ health.results[k].url.id = health.urls[k].id
                /\ health.checks[k].state = "fulfilled"
                /\ health.results[k] = health.checks[k].value

\* three urls in two batches of at most two, a failed check among them, and
\* the second check settled before the first
C30_Witness ==
    /\ health.pc = "done"
    /\ Len(health.urls) = 3
    /\ health.maxConcurrent = 2
    /\ ~health.results[3].isHealthy
    /\ health.results[2].lastChecked < health.results[1].lastChecked
====
